---- MODULE Spec2Model ----
(***************************************************************************)
(* Model of examples/basic/simple_archive.py: the command-line entry       *)
(* point main(), the archive workflow archive_url() and the lookup         *)
(* get_archive_info().  The ArchiveChain SDK client is the environment:    *)
(* what create / archive_updates / get return or raise is chosen            *)
(* nondeterministically.  One action is one run of the code between two    *)
(* suspension points (await), including the except / finally blocks it     *)
(* passes through.                                                         *)
(***************************************************************************)
EXTENDS Integers, Sequences, FiniteSets, TLC

VARIABLES pc, argv, env, clients, calls, out, exitCode, handle, stream, pos, fault

vars == <<pc, argv, env, clients, calls, out, exitCode, handle, stream, pos, fault>>

(* ------------------------------ bounds --------------------------------- *)
MaxArgs == 2
MaxUpdates == 3

(* ------------------- strings, as sequences of characters --------------- *)
HttpPrefix == <<"h","t","t","p",":","/","/">>
HttpsPrefix == <<"h","t","t","p","s",":","/","/">>
InfoWord == <<"i","n","f","o">>

Tokens ==
  { HttpPrefix \o <<"a">>,
    HttpsPrefix \o <<"a">>,
    <<"h","t","t","p",":","/","a">>,
    <<"f","t","p",":","/","/","a">>,
    <<>>,
    InfoWord }

ProgName == <<"s">>

RECURSIVE SeqsUpTo(_, _)
SeqsUpTo(S, n) ==
  IF n = 0 THEN { <<>> }
  ELSE LET shorter == SeqsUpTo(S, n - 1)
       IN  shorter \cup { Append(s, x) : s \in shorter, x \in S }

(* str.startswith(prefix) *)
StartsWith(s, prefix) ==
  /\ Len(s) >= Len(prefix)
  /\ SubSeq(s, 1, Len(prefix)) = prefix

(* url.startswith(('http://', 'https://')) *)
(* faulty variant: only the leading "http" is compared *)
ValidUrlLoose(url) == StartsWith(url, <<"h","t","t","p">>)
ValidUrl(url) == StartsWith(url, HttpPrefix) \/ StartsWith(url, HttpsPrefix)

(* os.getenv('ARCHIVECHAIN_API_KEY'): <<>> is None, <<v>> is the value v *)
KeyValues == { <<>>, << "" >>, << "key" >> }
Getenv(e) == e

(* `not api_key`: None and the empty string are both falsy *)
(* faulty variant: only None counts as missing *)
FalsyNoneOnly(v) == Len(v) = 0
Falsy(v) == IF Len(v) = 0 THEN TRUE ELSE v[1] = ""

(* ---------------------- what the SDK can hand back --------------------- *)
Handles ==
  { [archive_id |-> "arc_1", status |-> "pending", total_cost |-> 3],
    [archive_id |-> "arc_2", status |-> "processing", total_cost |-> 7] }

NoHandle == [archive_id |-> "", status |-> "", total_cost |-> 0]

Upd(st, pr, ph, sz, vw, er) ==
  [status |-> st, progress |-> pr, phase |-> ph, final_size |-> sz,
   view |-> vw, error |-> er]

Updates ==
  { Upd("processing", 5, "crawl", 0, "", ""),
    Upd("processing", 55, "store", 0, "", ""),
    Upd("completed", 100, "", 4096, "U", ""),
    Upd("failed", 0, "", 0, "", "timeout"),
    Upd("pending", 0, "", 0, "", "") }

Archives ==
  { [url |-> "u1", title |-> "t1", status |-> "completed", size |-> 4096,
     created_at |-> "d1", replicas |-> 3, integrity_score |-> 1, view |-> "U"] }

Msgs == { "timeout", "missing" }

Exc(k, m) == [kind |-> k, msg |-> m]
SubmitErrors == { Exc(k, m) : k \in {"TransportError", "ValidationError"}, m \in Msgs }
StreamErrors == { Exc("TransportError", m) : m \in Msgs }
LookupErrors == { Exc(k, m) : k \in {"NotFoundError", "TransportError"}, m \in Msgs }

(* f"{e}": the text of an exception is its message; the class is not shown *)
Str(e) == e.msg

(* ------------------------- observable records -------------------------- *)
Ev(tag, arg, s1, s2, n) == [tag |-> tag, arg |-> arg, s1 |-> s1, s2 |-> s2, n |-> n]
Mark(tag) == Ev(tag, <<>>, "", "", 0)

Call(op, arg, id) == [op |-> op, arg |-> arg, id |-> id]

NoFault == <<>>
Fault(src, e) == << [src |-> src, kind |-> e.kind, msg |-> e.msg] >>

(* finally: await client.close() *)
Close(cs) == Append(cs, Call("close", <<>>, ""))

Init ==
  /\ pc = "main"
  /\ argv \in { <<ProgName>> \o a : a \in SeqsUpTo(Tokens, MaxArgs) }
  /\ env \in KeyValues
  /\ clients = 0
  /\ calls = <<>>
  /\ out = <<>>
  /\ exitCode = -1
  /\ handle = NoHandle
  /\ stream = <<>>
  /\ pos = 0
  /\ fault = NoFault

(* ------------------------------- main ---------------------------------- *)
UsageError == Len(argv) < 2
KeyMissing == Falsy(Getenv(env))
InfoCommand == argv[2] = InfoWord /\ Len(argv) >= 3

(* if len(sys.argv) < 2: usage, sys.exit(1) *)
MainUsage ==
  /\ pc = "main"
  /\ UsageError
  /\ out' = out \o << Mark("usage"), Mark("usage_examples"),
                      Mark("usage_example_archive"), Mark("usage_example_info") >>
  /\ exitCode' = 1
  /\ pc' = "exited"
  /\ UNCHANGED <<argv, env, clients, calls, handle, stream, pos, fault>>

(* if not api_key: message, sys.exit(1) *)
MainNoKey ==
  /\ pc = "main"
  /\ ~UsageError
  /\ KeyMissing
  /\ out' = out \o << Mark("no_api_key"), Mark("no_api_key_hint"),
                      Mark("no_api_key_example") >>
  /\ exitCode' = 1
  /\ pc' = "exited"
  /\ UNCHANGED <<argv, env, clients, calls, handle, stream, pos, fault>>

(* asyncio.run(get_archive_info(sys.argv[2])), up to `await client.archives.get` *)
MainInfo ==
  /\ pc = "main"
  /\ ~UsageError
  /\ ~KeyMissing
  /\ InfoCommand
  /\ clients' = clients + 1
  /\ out' = Append(out, Ev("lookup_start", argv[3], "", "", 0))
  /\ calls' = Append(calls, Call("lookup", argv[3], ""))
  /\ pc' = "awaitLookup"
  /\ UNCHANGED <<argv, env, exitCode, handle, stream, pos, fault>>

(* else branch: url = sys.argv[1]; the url check fails, sys.exit(1) *)
MainInvalidUrl ==
  /\ pc = "main"
  /\ ~UsageError
  /\ ~KeyMissing
  /\ ~InfoCommand
  /\ ~ValidUrl(argv[2])
  /\ out' = Append(out, Mark("invalid_url"))
  /\ exitCode' = 1
  /\ pc' = "exited"
  /\ UNCHANGED <<argv, env, clients, calls, handle, stream, pos, fault>>

(* else branch: asyncio.run(archive_url(url)), up to `await client.archives.create` *)
MainArchive ==
  /\ pc = "main"
  /\ ~UsageError
  /\ ~KeyMissing
  /\ ~InfoCommand
  /\ ValidUrl(argv[2])
  /\ clients' = clients + 1
  /\ out' = out \o << Ev("archive_start", argv[2], "", "", 0), Mark("creating") >>
  /\ calls' = Append(calls, Call("submit", argv[2], ""))
  /\ pc' = "awaitCreate"
  /\ UNCHANGED <<argv, env, exitCode, handle, stream, pos, fault>>

(* ---------------------------- archive_url ------------------------------ *)
(* the body of the monitoring loop: what one update prints *)
LoopReport(u) ==
  IF u.status = "processing"
    THEN << Ev("progress", <<>>, u.phase, "", u.progress) >>
  ELSE IF u.status = "completed"
    THEN << Mark("completed"),
            Ev("final_size", <<>>, "", "", u.final_size),
            Ev("view_url", <<>>, u.view, "", 0) >>
  ELSE IF u.status = "failed"
    THEN << Ev("failed", <<>>, u.error, "", 0) >>
  ELSE << >>

(* the body of the monitoring loop: whether it executes `break` *)
(* faulty variants: no break on "failed"; break on any other status *)
BreaksOnCompletedOnly(u) == u.status = "completed"
BreaksOnUnknown(u) == u.status # "processing"
Breaks(u) == u.status = "completed" \/ u.status = "failed"

(* create() returns: report the handle, open the update stream *)
(* faulty variant: subscribes to a fixed archive id *)
CreateReturnsFixedId ==
  /\ pc = "awaitCreate"
  /\ \E h \in Handles, us \in SeqsUpTo(Updates, MaxUpdates) :
       /\ handle' = h
       /\ out' = out \o << Mark("created"),
                           Ev("archive_id", <<>>, h.archive_id, "", 0),
                           Ev("status", <<>>, h.status, "", 0),
                           Ev("cost", <<>>, "", "", h.total_cost),
                           Mark("monitoring") >>
       /\ calls' = Append(calls, Call("subscribe", <<>>, "arc_1"))
       /\ stream' = us
  /\ pos' = 0
  /\ pc' = "awaitUpdate"
  /\ UNCHANGED <<argv, env, clients, exitCode, fault>>

CreateReturns ==
  /\ pc = "awaitCreate"
  /\ \E h \in Handles, us \in SeqsUpTo(Updates, MaxUpdates) :
       /\ handle' = h
       /\ out' = out \o << Mark("created"),
                           Ev("archive_id", <<>>, h.archive_id, "", 0),
                           Ev("status", <<>>, h.status, "", 0),
                           Ev("cost", <<>>, "", "", h.total_cost),
                           Mark("monitoring") >>
       /\ calls' = Append(calls, Call("subscribe", <<>>, h.archive_id))
       /\ stream' = us
  /\ pos' = 0
  /\ pc' = "awaitUpdate"
  /\ UNCHANGED <<argv, env, clients, exitCode, fault>>

(* create() raises: except Exception -> message, sys.exit(1); finally close *)
CreateRaises ==
  /\ pc = "awaitCreate"
  /\ \E e \in SubmitErrors :
       /\ out' = Append(out, Ev("archive_error", <<>>, Str(e), "", 0))
       /\ fault' = Fault("submit", e)
  /\ exitCode' = 1
  /\ calls' = Close(calls)
  /\ pc' = "exited"
  /\ UNCHANGED <<argv, env, clients, handle, stream, pos>>

(* the stream yields its next update: one pass through the loop body;     *)
(* on break the function returns through finally                          *)
StreamDelivers ==
  /\ pc = "awaitUpdate"
  /\ pos < Len(stream)
  /\ pos' = pos + 1
  /\ LET u == stream[pos + 1] IN
       /\ out' = out \o LoopReport(u)
       /\ IF Breaks(u)
            THEN /\ calls' = Close(calls)
                 /\ exitCode' = 0
                 /\ pc' = "exited"
            ELSE UNCHANGED <<calls, exitCode, pc>>
  /\ UNCHANGED <<argv, env, clients, handle, stream, fault>>

(* the stream is exhausted: the loop ends, the function returns through finally *)
StreamEnds ==
  /\ pc = "awaitUpdate"
  /\ pos = Len(stream)
  /\ calls' = Close(calls)
  /\ exitCode' = 0
  /\ pc' = "exited"
  /\ UNCHANGED <<argv, env, clients, out, handle, stream, pos, fault>>

(* the stream raises while being consumed: except Exception -> message,   *)
(* sys.exit(1); finally close                                             *)
(* faulty variant: submits again after the stream failed *)
StreamRaisesRetry ==
  /\ pc = "awaitUpdate"
  /\ \E e \in StreamErrors :
       /\ out' = Append(out, Ev("archive_error", <<>>, Str(e), "", 0))
       /\ fault' = Fault("stream", e)
  /\ exitCode' = 1
  /\ calls' = Close(Append(calls, Call("submit", argv[2], "")))
  /\ pc' = "exited"
  /\ UNCHANGED <<argv, env, clients, handle, stream, pos>>

StreamRaises ==
  /\ pc = "awaitUpdate"
  /\ \E e \in StreamErrors :
       /\ out' = Append(out, Ev("archive_error", <<>>, Str(e), "", 0))
       /\ fault' = Fault("stream", e)
  /\ exitCode' = 1
  /\ calls' = Close(calls)
  /\ pc' = "exited"
  /\ UNCHANGED <<argv, env, clients, handle, stream, pos>>

(* --------------------------- get_archive_info -------------------------- *)
(* what a failed lookup leaves behind: the except block prints the text   *)
(* of the exception and does not exit, so the process status is that of   *)
(* a normal return                                                        *)
LookupFailureOutcome(e) ==
  [report |-> Ev("lookup_error", <<>>, Str(e), "", 0), exit |-> 0]

(* get() returns: print the record; finally close *)
LookupReturns ==
  /\ pc = "awaitLookup"
  /\ \E a \in Archives :
       out' = out \o << Mark("info_header"),
                        Ev("info_url", <<>>, a.url, "", 0),
                        Ev("info_title", <<>>, a.title, "", 0),
                        Ev("info_status", <<>>, a.status, "", 0),
                        Ev("info_size", <<>>, "", "", a.size),
                        Ev("info_created_at", <<>>, a.created_at, "", 0),
                        Ev("info_replicas", <<>>, "", "", a.replicas),
                        Ev("info_integrity", <<>>, "", "", a.integrity_score),
                        Ev("info_view", <<>>, a.view, "", 0) >>
  /\ calls' = Close(calls)
  /\ exitCode' = 0
  /\ pc' = "exited"
  /\ UNCHANGED <<argv, env, clients, handle, stream, pos, fault>>

(* get() raises: except Exception -> message; finally close *)
(* faulty variant: the client is not closed after a failed lookup *)
LookupRaisesNoClose ==
  /\ pc = "awaitLookup"
  /\ \E e \in LookupErrors :
       /\ out' = Append(out, LookupFailureOutcome(e).report)
       /\ exitCode' = LookupFailureOutcome(e).exit
       /\ fault' = Fault("lookup", e)
  /\ calls' = calls
  /\ pc' = "exited"
  /\ UNCHANGED <<argv, env, clients, handle, stream, pos>>

LookupRaises ==
  /\ pc = "awaitLookup"
  /\ \E e \in LookupErrors :
       /\ out' = Append(out, LookupFailureOutcome(e).report)
       /\ exitCode' = LookupFailureOutcome(e).exit
       /\ fault' = Fault("lookup", e)
  /\ calls' = Close(calls)
  /\ pc' = "exited"
  /\ UNCHANGED <<argv, env, clients, handle, stream, pos>>

(* the run is interrupted at a suspension point: the cancellation is not  *)
(* an Exception, so only the finally block runs, and the interpreter      *)
(* ends with the status of an unhandled KeyboardInterrupt                 *)
Interrupt ==
  /\ pc \in {"awaitCreate", "awaitUpdate", "awaitLookup"}
  /\ fault' = Fault("interrupt", Exc("CancelledError", ""))
  /\ calls' = Close(calls)
  /\ exitCode' = 130
  /\ pc' = "exited"
  /\ UNCHANGED <<argv, env, clients, out, handle, stream, pos>>

Next ==
  \/ MainUsage
  \/ MainNoKey
  \/ MainInfo
  \/ MainInvalidUrl
  \/ MainArchive
  \/ CreateReturns
  \/ CreateRaises
  \/ StreamDelivers
  \/ StreamEnds
  \/ StreamRaises
  \/ LookupReturns
  \/ LookupRaises
  \/ Interrupt

Spec == Init /\ [][Next]_vars
(* ------------------------ vocabulary of the claims --------------------- *)
Exited == pc = "exited"
Count(op) == Cardinality({ i \in DOMAIN calls : calls[i].op = op })
HasEv(tag) == \E i \in DOMAIN out : out[i].tag = tag
Ops == [ i \in DOMAIN calls |-> calls[i].op ]
FaultIs(src) == fault # NoFault /\ fault[1].src = src
Consumed == SubSeq(stream, 1, pos)
IsTerminal(u) == u.status \in {"completed", "failed"}
TerminalIs(st) == Exited /\ fault = NoFault /\ pos > 0 /\ stream[pos].status = st
ArchiveRan == Count("submit") > 0
InfoRan == Count("lookup") > 0
Dispatched == Len(argv) >= 2 /\ env # <<>> /\ env # << "" >>
HasScheme(u) ==
  \/ Len(u) >= 7 /\ u[1] = "h" /\ u[2] = "t" /\ u[3] = "t" /\ u[4] = "p"
       /\ u[5] = ":" /\ u[6] = "/" /\ u[7] = "/"
  \/ Len(u) >= 8 /\ u[1] = "h" /\ u[2] = "t" /\ u[3] = "t" /\ u[4] = "p"
       /\ u[5] = "s" /\ u[6] = ":" /\ u[7] = "/" /\ u[8] = "/"
ArchiveCommand == Dispatched /\ ~(argv[2] = InfoWord /\ Len(argv) >= 3)

(* C1: on the archive command a terminal "failed" update is reported and  *)
(* gives a non-zero exit code, and when a terminal update was delivered   *)
(* exit code 0 occurs only if that update is "completed".                 *)
C1_FailedUpdateExitsNonZero ==
  (Exited /\ ArchiveRan) =>
     /\ TerminalIs("failed") => (HasEv("failed") /\ exitCode # 0)
     /\ (exitCode = 0 /\ pos > 0 /\ IsTerminal(stream[pos])) => TerminalIs("completed")

(* C2: on the info command a failed lookup is reported and gives a        *)
(* non-zero exit code, and exit code 0 occurs only after a successful     *)
(* lookup.                                                                *)
C2_FailedLookupExitsNonZero ==
  (Exited /\ InfoRan) =>
     /\ FaultIs("lookup") => (HasEv("lookup_error") /\ exitCode # 0)
     /\ exitCode = 0 => fault = NoFault

(* C3 as stated: whatever the outcome of the archive or lookup operation, *)
(* validation failure included, close has been called exactly once when   *)
(* the operation exits.                                                   *)
C3_CloseExactlyOnceAlways ==
  (Exited /\ Dispatched) => Count("close") = 1

(* C3 amended: close is called exactly once in every run that constructed *)
(* the client (every outcome but the url validation failure, which        *)
(* happens before a client exists and calls close zero times); it is      *)
(* never called twice.                                                    *)
C3_CloseOncePerClient ==
  /\ clients <= 1
  /\ Count("close") <= clients
  /\ Exited => Count("close") = clients
  /\ (Exited /\ Dispatched) =>
       IF ArchiveCommand /\ ~HasScheme(argv[2])
         THEN Count("close") = 0
         ELSE Count("close") = 1

C3_Witness ==
  Exited /\ FaultIs("lookup") /\ Count("close") = 1

(* C4: a url without the http:// or https:// prefix ends the archive      *)
(* command with the validation error and a non-zero exit, and no client   *)
(* call (submit, subscribe, lookup) is ever made, also when the url is    *)
(* the word "info" given without an archive id.                           *)
C4_InvalidUrlNoClientCalls ==
  (ArchiveCommand /\ ~HasScheme(argv[2])) =>
     /\ calls = <<>>
     /\ clients = 0
     /\ pc \in {"main", "exited"}
     /\ Exited => (exitCode # 0 /\ HasEv("invalid_url"))

C4_Witness ==
  /\ Exited
  /\ Dispatched
  /\ argv[2] = <<"h","t","t","p",":","/","a">>
  /\ HasEv("invalid_url")

(* C5: with the API key missing or empty the process exits non-zero and   *)
(* no client call is ever made, whatever the arguments.                   *)
C5_NoKeyNoClientCalls ==
  (env = <<>> \/ env = << "" >>) =>
     /\ calls = <<>>
     /\ clients = 0
     /\ pc \in {"main", "exited"}
     /\ Exited => exitCode # 0

C5_Witness ==
  /\ Exited
  /\ env = << "" >>
  /\ Len(argv) = 3
  /\ argv[2] = InfoWord
  /\ HasEv("no_api_key")

(* C6: updates are handled in delivery order and the loop stops at the    *)
(* first "completed" or "failed" update: what has been reported is the    *)
(* report of the consumed prefix of the stream, in order, and no update   *)
(* after a terminal one is consumed.                                      *)
IsUpdateReport(e) == e.tag \in {"progress", "final_size", "failed"}
IsReportedStatus(u) == u.status \in {"processing", "completed", "failed"}
Observed(e) ==
  IF e.tag = "progress" THEN <<"processing", e.n, e.s1>>
  ELSE IF e.tag = "final_size" THEN <<"completed", e.n, "">>
  ELSE <<"failed", 0, e.s1>>
Expected(u) ==
  IF u.status = "processing" THEN <<"processing", u.progress, u.phase>>
  ELSE IF u.status = "completed" THEN <<"completed", u.final_size, "">>
  ELSE <<"failed", 0, u.error>>
ObservedReports ==
  LET r == SelectSeq(out, IsUpdateReport) IN [ i \in DOMAIN r |-> Observed(r[i]) ]
ExpectedReports ==
  LET c == SelectSeq(Consumed, IsReportedStatus) IN [ i \in DOMAIN c |-> Expected(c[i]) ]

C6_StopsAtFirstTerminal ==
  /\ pos <= Len(stream)
  /\ \A i \in 1..(pos - 1) : ~IsTerminal(stream[i])
  /\ (pos > 0 /\ IsTerminal(stream[pos])) => Exited
  /\ ObservedReports = ExpectedReports

C6_Witness ==
  /\ Exited
  /\ pos = 2
  /\ Len(stream) = 3
  /\ stream[1].status = "processing"
  /\ stream[2].status = "failed"
  /\ stream[3].status = "completed"

(* C7: a lookup that fails with NotFoundError leaves an outcome (reported *)
(* error, exit status) different from the outcome of every TransportError.*)
C7_NotFoundDistinct ==
  (Exited /\ FaultIs("lookup") /\ fault[1].kind = "NotFoundError") =>
     \A e \in LookupErrors :
        e.kind = "TransportError" =>
           LookupFailureOutcome(e) # [report |-> out[Len(out)], exit |-> exitCode]

(* C8: a transport failure while the stream is consumed ends the run with *)
(* the error report and a non-zero exit, with no further submit or        *)
(* subscribe: submit and subscribe are each called at most once.          *)
C8_StreamFailureNoRetry ==
  /\ Count("submit") <= 1
  /\ Count("subscribe") <= 1
  /\ FaultIs("stream") =>
       /\ Exited
       /\ exitCode # 0
       /\ Ops = <<"submit", "subscribe", "close">>
       /\ out[Len(out)].tag = "archive_error"
       /\ out[Len(out)].s1 = fault[1].msg

C8_Witness ==
  Exited /\ FaultIs("stream") /\ pos = 2 /\ exitCode = 1

(* C9: subscribe follows a successful submit and carries the archive_id   *)
(* that submit returned; after a failed submit there is no subscribe, no  *)
(* handle or update report, only the error report, close and a non-zero   *)
(* exit.                                                                  *)
HandleOrUpdateTags ==
  {"created", "archive_id", "status", "cost", "monitoring",
   "progress", "completed", "final_size", "view_url", "failed"}

C9_SubscribeAfterSubmit ==
  /\ \A i \in DOMAIN calls :
        calls[i].op = "subscribe" =>
           /\ i > 1
           /\ calls[i - 1].op = "submit"
           /\ handle \in Handles
           /\ calls[i].id = handle.archive_id
           /\ \E j \in DOMAIN out :
                /\ out[j].tag = "archive_id" /\ out[j].s1 = handle.archive_id
                /\ out[j + 2].tag = "cost" /\ out[j + 2].n = handle.total_cost
  /\ FaultIs("submit") =>
       /\ Exited
       /\ handle = NoHandle
       /\ Ops = <<"submit", "close">>
       /\ \A j \in DOMAIN out : out[j].tag \notin HandleOrUpdateTags
       /\ out[Len(out)].tag = "archive_error"
       /\ exitCode # 0

C9_Witness ==
  /\ Count("subscribe") = 1
  /\ handle.archive_id = "arc_2"
  /\ calls[2].id = "arc_2"

(* C10: an update of another status (e.g. "pending") prints nothing and   *)
(* does not end the loop; when the stream runs out without a terminal     *)
(* update the run has closed the client once, exits with code 0 and has   *)
(* reported neither completion nor failure; and every run terminates:    *)
(* a run that has not exited can always step, and each step lowers the    *)
(* number of steps left.                                                  *)
C10_ExhaustedState ==
  /\ (Exited /\ fault = NoFault /\ Count("subscribe") = 1
        /\ \A i \in 1..pos : ~IsTerminal(stream[i])) =>
       /\ pos = Len(stream)
       /\ Count("close") = 1
       /\ exitCode = 0
       /\ ~HasEv("completed")
       /\ ~HasEv("failed")
  /\ (pos > 0 /\ ~IsReportedStatus(stream[pos]) /\ Exited /\ fault = NoFault) =>
       pos = Len(stream)

C10_SkipStep ==
  (pc = "awaitUpdate" /\ pos' = pos + 1 /\ ~IsReportedStatus(stream[pos + 1])) =>
     (out' = out /\ pc' = "awaitUpdate" /\ calls' = calls)

(* steps left at most: one per remaining update, plus the fixed steps *)
C10_Remaining ==
  IF pc = "main" THEN MaxUpdates + 3
  ELSE IF pc = "awaitCreate" THEN MaxUpdates + 2
  ELSE IF pc = "awaitUpdate" THEN Len(stream) - pos + 1
  ELSE IF pc = "awaitLookup" THEN 1
  ELSE 0

C10_ExhaustedStreamExitsZero ==
  /\ []C10_ExhaustedState
  /\ [][C10_SkipStep]_vars
  /\ [](~Exited => (ENABLED Next /\ C10_Remaining > 0))
  /\ [][C10_Remaining' < C10_Remaining]_vars

C10_Witness ==
  /\ Exited
  /\ fault = NoFault
  /\ Len(stream) = 2
  /\ pos = 2
  /\ stream[1].status = "pending"
  /\ stream[2].status = "processing"
  /\ exitCode = 0
====
